---- MODULE Spec2Model ----
(***************************************************************************)
(* Gist search aggregation of the gist-app server:                         *)
(*   GET /api/gists/search          (session-scoped, lists GET /gists)      *)
(*   GET /api/public-gists/search   (anonymous, lists GET /gists/public)    *)
(* One request is followed from its arrival to its HTTP response.  The     *)
(* Gist Source (GitHub) is the environment: its listing page, its          *)
(* get-gist-by-id answers and its failures are inputs.                     *)
(***************************************************************************)
EXTENDS Integers, Sequences, FiniteSets, TLC

(***************************************************************************)
(* Bounds and input pools                                                  *)
(***************************************************************************)
\* Largest number of gists on the listed page.
MaxGists == 2

\* The page size both routes ask for.
PerPage == 100

\* Strings are sequences of one-character strings.  The two missing values are
\* sequences too, of one element that is no character, so that a value and a
\* missing value compare.
NoParam == << "null" >>        \* searchParams.get("q") returned null
Absent == << "undefined" >>    \* a file reference without a content field

Queries ==
    { <<>>, <<" ">>, <<"p">>, <<"H">>, <<"y">> }

QueryParams == Queries \cup {NoParam}

\* Files of a gist as the Gist Source holds them: the real content of each
\* file, and whether the listing inlines it.
NoFiles == << >>

InlineFile == (<<"Y", "s">> :> [content |-> <<"P", "h">>, inline |-> TRUE])

OmittedFile == (<<"Y", "s">> :> [content |-> <<"P", "h">>, inline |-> FALSE])

EmptyFile == (<<"Y", "s">> :> [content |-> <<>>, inline |-> TRUE])

MixedFiles == InlineFile @@ (<<"x">> :> [content |-> <<"z">>, inline |-> FALSE])

\* The gists the Gist Source may hold, without their ids.
GistPool ==
    { [description |-> <<>>, files |-> NoFiles],
      [description |-> <<"H", "i">>, files |-> NoFiles],
      [description |-> <<>>, files |-> InlineFile],
      [description |-> <<>>, files |-> OmittedFile],
      [description |-> <<"H", "i">>, files |-> OmittedFile],
      [description |-> <<"H", "i">>, files |-> EmptyFile],
      [description |-> <<>>, files |-> MixedFiles] }

\* The listed pages the Gist Source may hold: gist k of the page has id k.
Pages ==
    UNION { { [k \in 1..n |-> [id |-> k, description |-> g[k].description,
                                        files |-> g[k].files]] :
                g \in [1..n -> GistPool] } :
            n \in 0..MaxGists }

ListErrors == {401, 403, 500}
EnrichErrors == {401, 404}

(***************************************************************************)
(* String functions of the JavaScript runtime                              *)
(***************************************************************************)
LowerChar(c) ==
    CASE c = "H" -> "h"
      [] c = "P" -> "p"
      [] c = "Y" -> "y"
      [] OTHER -> c

\* String.prototype.toLowerCase
toLowerCase(s) == [i \in 1..Len(s) |-> LowerChar(s[i])]

\* String.prototype.includes
includes(s, q) ==
    \E i \in 0..(Len(s) - Len(q)) : SubSeq(s, i + 1, i + Len(q)) = q

IsSpace(c) == c = " "

RECURSIVE trimStart(_)
trimStart(s) ==
    IF s # <<>> /\ IsSpace(Head(s)) THEN trimStart(Tail(s)) ELSE s

RECURSIVE trimEnd(_)
trimEnd(s) ==
    IF s # <<>> /\ IsSpace(s[Len(s)]) THEN trimEnd(SubSeq(s, 1, Len(s) - 1)) ELSE s

\* String.prototype.trim
trim(s) == trimEnd(trimStart(s))

\* JavaScript truthiness of a string-or-missing value: "" and undefined are falsy.
Truthy(v) == v # Absent /\ v # <<>>

(***************************************************************************)
(* The Gist Source                                                         *)
(***************************************************************************)
\* The entry of gist g in a listing response: content only where inlined.
Summary(g) ==
    [id |-> g.id,
     description |-> g.description,
     files |-> [fn \in DOMAIN g.files |->
                  [content |-> IF g.files[fn].inline
                               THEN g.files[fn].content ELSE Absent]]]

\* The answer of get-gist-by-id for gist g while g is unchanged upstream.
FullGist(g) ==
    [id |-> g.id,
     description |-> g.description,
     files |-> [fn \in DOMAIN g.files |-> [content |-> g.files[fn].content]]]

\* The answer of get-gist-by-id after g was edited upstream between the listing
\* call and the get call: new description, its file renamed and rewritten.
EditedGist(g) ==
    [id |-> g.id,
     description |-> <<>>,
     files |-> (<<"n">> :> [content |-> <<"n">>])]

(***************************************************************************)
(* State                                                                   *)
(***************************************************************************)
VARIABLES
    route,            \* "user": /api/gists/search, "public": /api/public-gists/search
    session,          \* getServerSession returned a session
    q,                \* the q parameter of the request URL, or NoParam
    upstream,         \* the page the Gist Source holds for the listing endpoint
    pc,               \* "start", "db", "list", "enriching", "done"
    authToken,        \* "none", "user" (stored token) or "default" (built-in token)
    listCalls,        \* listing calls issued: sequence of [endpoint, token, per_page]
    getCalls,         \* get-gist-by-id calls issued, per gist id
    filteredGists,    \* pass 1 result
    enrich,           \* per index of filteredGists: the async callback's state
    order,            \* indices of filteredGists in the order their callbacks settled
    listStatus,       \* status of the listing call: 0 before it returns, 200, or an error
    response,         \* [status, error, gists] sent to the caller; status 0 before that
    run,              \* 1: the request; 2: the same request sent again (SpecRepeat)
    previous,         \* [query, gists] of the first run's response, once it is repeated
    answers,          \* SpecRepeat: what get-gist-by-id answers for each gist id, both runs
    \* PATCH and DELETE /api/gists/:id
    idRequest,        \* [method, name, token, description]: the request and its user
    hub,              \* the gist the Gist Source holds under :id
    idPc,             \* "idle", "start", "body", "db", "get", "check", "write", "done"
    gotGist,          \* [status, gist]: what github.getGist(id) returned; status 0 before
    hubCalls,         \* calls issued to the Gist Source, in order
    idResponse,       \* [status, error] sent to the caller; status 0 before that
    \* GET /api/public-gists
    pgRequest,        \* [per_page, page]: the parameters of the request URL, or NoParam
    publicGists,      \* the public gists the Gist Source holds, newest first
    pgPc,             \* "idle", "start", "list", "done"
    pgCalls,          \* listing calls issued: sequence of [endpoint, token, per_page, page]
    pgOutcome,        \* [status, remaining, reset, data]: how the listing call ended
    pgResponse,       \* [status, error, reset, gists] sent to the caller
    \* dbConnect
    cached,           \* global.mongoose: [conn, promise]; promise is "null", "pending",
                      \* "fulfilled" or "rejected"
    attempts,         \* number of mongoose.connect calls so far
    callers,          \* per dbConnect call: [pc, saw, promise]; pc is "idle",
                      \* "awaiting", "returned" or "threw"
    \* SearchContent
    scUser,           \* session?.user?.name, or "undefined"
    searchQuery,      \* the text of the search box
    urlQ,             \* the q parameter of the page URL, or NoParam
    activeTab,        \* "all" or "my"
    scGists,          \* gists: the list on display
    scLoading,        \* loading
    scError,          \* error is set
    timers,           \* pending debounced searches, oldest first: [query, tab, current]
    instTab,          \* the activeTab in the closure of the current debouncedSearch
    inFlight,         \* requests sent and not yet answered: [id, query, tab]
    issued,           \* number of requests sent so far
    typed,            \* number of changes of the text so far
    tabUsed,          \* a tab has been clicked
    lastSearch,       \* [query, outcome] of the request sent last; [results, shown]:
                      \* the last ok response, and whether no clearing of the list
                      \* by an empty box or a failed search has followed it
    \* GistsPage
    searchTerm,       \* the text of the search box
    isSearching,      \* search mode
    searchPage,       \* the page of the search asked for last
    searchHasMore,    \* Load More is offered in search mode
    myGists,          \* gists: the list on display
    myLoading,        \* loading
    myError,          \* error is set
    myPage,           \* page: the page of the user's gists asked for last
    hasMore,          \* Load More is offered outside search mode
    hasToken,         \* FALSE: the page shows the missing-token message only
    myInFlight,       \* requests sent and not yet answered: [id, kind, query, page]
    myIssued,         \* number of requests sent so far
    clicks,           \* number of user actions so far
    fromSearch        \* the list on display is made of search responses only

\* The state of one search request
searchVars ==
    << route, session, q, upstream, pc, authToken, listCalls, getCalls,
       filteredGists, enrich, order, listStatus, response, run, previous, answers >>

\* PATCH and DELETE /api/gists/:id
gistVars == << idRequest, hub, idPc, gotGist, hubCalls, idResponse >>

\* What the search handlers never touch
\* GET /api/public-gists
publicVars == << pgRequest, publicGists, pgPc, pgCalls, pgOutcome, pgResponse >>

\* dbConnect
dbVars == << cached, attempts, callers >>

\* SearchContent
pageVars ==
    << scUser, searchQuery, urlQ, activeTab, scGists, scLoading, scError, timers,
       instTab, inFlight, issued, typed, tabUsed, lastSearch >>

\* GistsPage
mineVars ==
    << searchTerm, isSearching, searchPage, searchHasMore, myGists, myLoading,
       myError, myPage, hasMore, hasToken, myInFlight, myIssued, clicks, fromSearch >>

componentVars == << gistVars, publicVars, dbVars, pageVars, mineVars >>

vars == << searchVars, componentVars >>

(***************************************************************************)
(* Components at rest                                                      *)
(* Each specification of this module follows one component; the others    *)
(* have received nothing and keep the state below.                         *)
(***************************************************************************)
\* No search request has arrived
SearchIdle ==
    /\ route = "public"
    /\ session = FALSE
    /\ q = << "null" >>
    /\ upstream = <<>>
    /\ pc = "idle"
    /\ authToken = "none"
    /\ listCalls = <<>>
    /\ getCalls = <<>>
    /\ filteredGists = <<>>
    /\ enrich = <<>>
    /\ order = <<>>
    /\ listStatus = 0
    /\ response = [status |-> 0, error |-> "", gists |-> <<>>]
    /\ run = 1
    /\ previous = [query |-> <<>>, gists |-> <<>>]
    /\ answers = <<>>

\* No PATCH or DELETE request has arrived
GistByIdIdle ==
    /\ idRequest = [method |-> "PATCH", name |-> "null", token |-> FALSE,
                    description |-> "d0"]
    /\ hub = [exists |-> FALSE, owner |-> "undefined", description |-> "d0"]
    /\ idPc = "idle"
    /\ gotGist = [status |-> 0, gist |-> hub]
    /\ hubCalls = <<>>
    /\ idResponse = [status |-> 0, error |-> ""]

\* No GET /api/public-gists request has arrived
PublicGistsIdle ==
    /\ pgRequest = [per_page |-> << "null" >>, page |-> << "null" >>]
    /\ publicGists = <<>>
    /\ pgPc = "idle"
    /\ pgCalls = <<>>
    /\ pgOutcome = [status |-> 0, remaining |-> << "undefined" >>,
                    reset |-> << "undefined" >>, data |-> <<>>]
    /\ pgResponse = [status |-> 0, error |-> "", gists |-> <<>>,
                     reset |-> [given |-> FALSE, soon |-> FALSE, ms |-> 0]]

\* No handler has called dbConnect
DbIdle ==
    /\ cached = [conn |-> FALSE, promise |-> "null"]
    /\ attempts = 0
    /\ callers = <<>>

\* The search page is not open
SearchPageIdle ==
    /\ scUser = "undefined"
    /\ searchQuery = <<>>
    /\ urlQ = << "null" >>
    /\ activeTab = "all"
    /\ scGists = <<>>
    /\ scLoading = FALSE
    /\ scError = FALSE
    /\ timers = <<>>
    /\ instTab = "all"
    /\ inFlight = {}
    /\ issued = 0
    /\ typed = 0
    /\ tabUsed = FALSE
    /\ lastSearch = [query |-> <<>>, outcome |-> "none", results |-> <<>>,
                     shown |-> FALSE]

\* The My Gists page is not open
MyGistsIdle ==
    /\ searchTerm = <<>>
    /\ isSearching = FALSE
    /\ searchPage = 1
    /\ searchHasMore = TRUE
    /\ myGists = <<>>
    /\ myLoading = TRUE
    /\ myError = FALSE
    /\ myPage = 1
    /\ hasMore = TRUE
    /\ hasToken = TRUE
    /\ myInFlight = {}
    /\ myIssued = 0
    /\ clicks = 0
    /\ fromSearch = FALSE

ComponentsIdle ==
    /\ GistByIdIdle
    /\ PublicGistsIdle
    /\ DbIdle
    /\ SearchPageIdle
    /\ MyGistsIdle

\* What the handlers of one request never touch
repeatVars == << run, previous, answers >>

\* const query = searchParams.get("q") || ""
query == IF q = NoParam THEN <<>> ELSE q

(***************************************************************************)
(* The handlers' pure parts                                                *)
(***************************************************************************)
\* Mutant: the emptiness test without the trim
queryIsEmptyNoTrim(qy) == ~Truthy(qy)

\* if (!query.trim())
queryIsEmpty(qy) == ~Truthy(trim(qy))

\* NextResponse.json({ error }, { status })
ErrorResponse(status, message) ==
    [status |-> status, error |-> message, gists |-> <<>>]

\* NextResponse.json(finalFilteredGists)
OkResponse(gists) ==
    [status |-> 200, error |-> "", gists |-> gists]

\* Mutant: pass 1 compares with the query as typed, not lower-cased
filterGistCaseSensitive(gist, qy) ==
    \/ /\ Truthy(gist.description)
       /\ includes(toLowerCase(gist.description), qy)
    \/ \E filename \in DOMAIN gist.files :
          \/ includes(toLowerCase(filename), qy)
          \/ /\ Truthy(gist.files[filename].content)
             /\ includes(toLowerCase(gist.files[filename].content), qy)

\* Mutant: pass 1 without the filename test
filterGistNoFilename(gist, qy) ==
    \/ /\ Truthy(gist.description)
       /\ includes(toLowerCase(gist.description), toLowerCase(qy))
    \/ \E filename \in DOMAIN gist.files :
          /\ Truthy(gist.files[filename].content)
          /\ includes(toLowerCase(gist.files[filename].content), toLowerCase(qy))

\* Mutant: pass 1 retains every listed gist
filterGistKeepsAll(gist, qy) == TRUE

\* Pass 1: the callback of response.data.filter
filterGist(gist, qy) ==
    \/ /\ Truthy(gist.description)
       /\ includes(toLowerCase(gist.description), toLowerCase(qy))
    \/ \E filename \in DOMAIN gist.files :
          \/ includes(toLowerCase(filename), toLowerCase(qy))
          \/ /\ Truthy(gist.files[filename].content)
             /\ includes(toLowerCase(gist.files[filename].content), toLowerCase(qy))

\* Mutant: a gist without files counts as lacking content
needContentOrNoFiles(gist) ==
    \/ DOMAIN gist.files = {}
    \/ \E filename \in DOMAIN gist.files : ~Truthy(gist.files[filename].content)

\* The loop that sets needContent in the callback of filteredGists.map
needContent(gist) ==
    \E filename \in DOMAIN gist.files : ~Truthy(gist.files[filename].content)

\* Mutant: the callback drops the fetched gist and returns the listing entry
enrichTryKeepsSummary(gist, fullGist) ==
    [st |-> "fetched", code |-> 200, value |-> gist]

\* What the map callback returns when octokit.request succeeds: fullGist.data
enrichTry(gist, fullGist) ==
    [st |-> "fetched", code |-> 200, value |-> fullGist]

\* What the map callback returns from its catch block: the listing entry
enrichCatch(gist, err) ==
    [st |-> "failed", code |-> err, value |-> gist]

\* What the map callback returns when no content is missing
enrichSkip(gist) ==
    [st |-> "kept", code |-> 0, value |-> gist]

\* A callback suspended at its await
enrichAwait(gist) ==
    [st |-> "pending", code |-> 0, value |-> gist]

\* Mutant: the join resolves with the first settled callback (Promise.race)
PromiseRaceSettled(enr) ==
    enr = <<>> \/ \E i \in 1..Len(enr) : enr[i].st # "pending"

\* await Promise.all: the handler resumes once every callback has settled
PromiseAllSettled(enr) ==
    \A i \in 1..Len(enr) : enr[i].st # "pending"

\* Mutant: the values collected in the order the callbacks settled
PromiseAllBySettling(enr, ord) ==
    [k \in 1..Len(enr) |-> enr[ord[k]].value]

\* Promise.all: the callbacks' values by position, whatever order they settled in
PromiseAll(enr, ord) ==
    [i \in 1..Len(enr) |-> enr[i].value]

\* Mutant: pass 2 looks at file content only
finalFilterContentOnly(gist, qy) ==
    \E filename \in DOMAIN gist.files :
        /\ Truthy(gist.files[filename].content)
        /\ includes(toLowerCase(gist.files[filename].content), toLowerCase(qy))

\* Mutant: pass 2 keeps every enriched gist
finalFilterKeepsAll(gist, qy) == TRUE

\* Pass 2: the callback of gistsWithContent.filter
finalFilterGist(gist, qy) ==
    \/ /\ Truthy(gist.description)
       /\ includes(toLowerCase(gist.description), toLowerCase(qy))
    \/ \E filename \in DOMAIN gist.files :
          \/ includes(toLowerCase(filename), toLowerCase(qy))
          \/ /\ Truthy(gist.files[filename].content)
             /\ includes(toLowerCase(gist.files[filename].content), toLowerCase(qy))

\* Mutant: a failed get-gist-by-id call rejects Promise.all (no try/catch in the
\* callback), and the handler's catch block answers
searchResponseRejecting(enr, ord, qy) ==
    IF \E i \in 1..Len(enr) : enr[i].st = "failed"
    THEN ErrorResponse(500, "Failed to search gists")
    ELSE OkResponse(SelectSeq([i \in 1..Len(enr) |-> enr[i].value],
                              LAMBDA g : finalFilterGist(g, qy)))

\* From the settled callbacks to the response: Promise.all, pass 2, json
searchResponse(enr, ord, qy) ==
    OkResponse(SelectSeq(PromiseAll(enr, ord), LAMBDA g : finalFilterGist(g, qy)))

\* Mutant: the catch block without its 401 branch
searchCatchNo401(err) ==
    ErrorResponse(500, "Failed to search gists")

\* The catch block of GET /api/gists/search; err = 0 is an error without a status
searchCatch(err) ==
    IF err = 401
    THEN ErrorResponse(401, "Invalid GitHub token. Please try again later.")
    ELSE ErrorResponse(500, "Failed to search gists")

\* Mutant: the catch blocks forward the upstream status
publicSearchCatchForwards(err) ==
    IF err = 401
    THEN ErrorResponse(401, "Default GitHub token is invalid or rate limited. Try again later.")
    ELSE ErrorResponse(err, "Failed to search public gists")

\* The two catch blocks of GET /api/public-gists/search
publicSearchCatch(err) ==
    IF err = 401
    THEN ErrorResponse(401, "Default GitHub token is invalid or rate limited. Try again later.")
    ELSE ErrorResponse(500, "Failed to search public gists")

\* The listing endpoint each route requests
listEndpoint(r) == IF r = "user" THEN "GET /gists" ELSE "GET /gists/public"

(***************************************************************************)
(* Initial state: a request has arrived, nothing has run                   *)
(***************************************************************************)
Init ==
    /\ route \in {"user", "public"}
    /\ session \in (IF route = "user" THEN BOOLEAN ELSE {FALSE})
    /\ q \in QueryParams
    /\ upstream \in Pages
    /\ pc = "start"
    /\ authToken = "none"
    /\ listCalls = <<>>
    /\ getCalls = [id \in 1..Len(upstream) |-> 0]
    /\ filteredGists = <<>>
    /\ enrich = <<>>
    /\ order = <<>>
    /\ listStatus = 0
    /\ response = [status |-> 0, error |-> "", gists |-> <<>>]
    /\ run = 1
    /\ previous = [query |-> <<>>, gists |-> <<>>]
    /\ answers = [id \in 1..Len(upstream) |-> 0]
    /\ ComponentsIdle

(***************************************************************************)
(* Actions                                                                 *)
(***************************************************************************)
\* Mutant: the query is checked before the session
RejectNoSessionAfterQuery ==
    /\ pc = "start"
    /\ route = "user"
    /\ ~session
    /\ response' = IF queryIsEmpty(query)
                   THEN ErrorResponse(400, "Search query is required")
                   ELSE ErrorResponse(401, "Unauthorized")
    /\ pc' = "done"
    /\ UNCHANGED << route, session, q, upstream, authToken, listCalls, getCalls,
                    filteredGists, enrich, order, listStatus >>
    /\ UNCHANGED << repeatVars, componentVars >>

\* GET /api/gists/search: if (!session) return 401
RejectNoSession ==
    /\ pc = "start"
    /\ route = "user"
    /\ ~session
    /\ response' = ErrorResponse(401, "Unauthorized")
    /\ pc' = "done"
    /\ UNCHANGED << route, session, q, upstream, authToken, listCalls, getCalls,
                    filteredGists, enrich, order, listStatus >>
    /\ UNCHANGED << repeatVars, componentVars >>

\* Both routes: if (!query.trim()) return 400
RejectEmptyQuery ==
    /\ pc = "start"
    /\ route = "user" => session
    /\ queryIsEmpty(query)
    /\ response' = ErrorResponse(400, "Search query is required")
    /\ pc' = "done"
    /\ UNCHANGED << route, session, q, upstream, authToken, listCalls, getCalls,
                    filteredGists, enrich, order, listStatus >>
    /\ UNCHANGED << repeatVars, componentVars >>

\* The query is accepted: the user route goes on to the database, the public
\* route takes the built-in token
AcceptQuery ==
    /\ pc = "start"
    /\ route = "user" => session
    /\ ~queryIsEmpty(query)
    /\ pc' = IF route = "user" THEN "db" ELSE "list"
    /\ authToken' = IF route = "user" THEN authToken ELSE "default"
    /\ UNCHANGED << route, session, q, upstream, listCalls, getCalls,
                    filteredGists, enrich, order, listStatus, response >>
    /\ UNCHANGED << repeatVars, componentVars >>

\* GET /api/gists/search: await dbConnect(); User.findById(...);
\* authToken = user?.githubToken || default.  Either await may reject.
DbLookup ==
    /\ pc = "db"
    /\ \E outcome \in {"token", "notoken", "throws"} :
          IF outcome = "throws"
          THEN /\ response' = searchCatch(0)
               /\ pc' = "done"
               /\ UNCHANGED authToken
          ELSE /\ authToken' = IF outcome = "token" THEN "user" ELSE "default"
               /\ pc' = "list"
               /\ UNCHANGED response
    /\ UNCHANGED << route, session, q, upstream, listCalls, getCalls,
                    filteredGists, enrich, order, listStatus >>
    /\ UNCHANGED << repeatVars, componentVars >>

\* Mutant: the listing request with the page size of GET /api/gists
ListCallDefaultPage ==
    [endpoint |-> listEndpoint(route), token |-> authToken, per_page |-> 30]

\* The record of the one listing request
ListCall == [endpoint |-> listEndpoint(route), token |-> authToken, per_page |-> PerPage]

\* The listing call rejects: control goes to the route's catch block
ListFails ==
    /\ pc = "list"
    /\ \E err \in ListErrors :
          /\ listStatus' = err
          /\ response' = IF route = "user" THEN searchCatch(err)
                                            ELSE publicSearchCatch(err)
    /\ listCalls' = Append(listCalls, ListCall)
    /\ pc' = "done"
    /\ UNCHANGED << route, session, q, upstream, authToken, getCalls,
                    filteredGists, enrich, order >>
    /\ UNCHANGED << repeatVars, componentVars >>

\* The listing call returns: pass 1, then every map callback runs to its await
\* (a get-gist-by-id request) or to its return
ListSucceeds ==
    /\ pc = "list"
    /\ listStatus' = 200
    /\ listCalls' = Append(listCalls, ListCall)
    /\ LET data == [k \in 1..Len(upstream) |-> Summary(upstream[k])]
           kept == SelectSeq(data, LAMBDA g : filterGist(g, query))
       IN  /\ filteredGists' = kept
           /\ enrich' = [i \in 1..Len(kept) |->
                           IF needContent(kept[i]) THEN enrichAwait(kept[i])
                                                   ELSE enrichSkip(kept[i])]
           /\ getCalls' = [id \in DOMAIN getCalls |->
                             IF \E i \in 1..Len(kept) :
                                    kept[i].id = id /\ needContent(kept[i])
                             THEN getCalls[id] + 1 ELSE getCalls[id]]
           /\ order' = SelectSeq([i \in 1..Len(kept) |-> i],
                                 LAMBDA i : ~needContent(kept[i]))
    /\ pc' = "enriching"
    /\ UNCHANGED << route, session, q, upstream, authToken, response >>
    /\ UNCHANGED << repeatVars, componentVars >>

\* get-gist-by-id for filteredGists[i] returns; the gist may have been edited
\* upstream since the listing
EnrichSucceeds(i) ==
    /\ pc = "enriching"
    /\ enrich[i].st = "pending"
    /\ \E changed \in BOOLEAN :
          LET g == upstream[filteredGists[i].id]
              fullGist == IF changed THEN EditedGist(g) ELSE FullGist(g)
          IN  enrich' = [enrich EXCEPT ![i] = enrichTry(filteredGists[i], fullGist)]
    /\ order' = Append(order, i)
    /\ UNCHANGED << route, session, q, upstream, pc, authToken, listCalls, getCalls,
                    filteredGists, listStatus, response >>
    /\ UNCHANGED << repeatVars, componentVars >>

\* get-gist-by-id for filteredGists[i] rejects: the callback's catch block
EnrichFails(i) ==
    /\ pc = "enriching"
    /\ enrich[i].st = "pending"
    /\ \E err \in EnrichErrors :
          enrich' = [enrich EXCEPT ![i] = enrichCatch(filteredGists[i], err)]
    /\ order' = Append(order, i)
    /\ UNCHANGED << route, session, q, upstream, pc, authToken, listCalls, getCalls,
                    filteredGists, listStatus, response >>
    /\ UNCHANGED << repeatVars, componentVars >>

\* Every callback has settled: Promise.all resolves, pass 2, the response
Respond ==
    /\ pc = "enriching"
    /\ PromiseAllSettled(enrich)
    /\ response' = searchResponse(enrich, order, query)
    /\ pc' = "done"
    /\ UNCHANGED << route, session, q, upstream, authToken, listCalls, getCalls,
                    filteredGists, enrich, order, listStatus >>
    /\ UNCHANGED << repeatVars, componentVars >>

Next ==
    \/ RejectNoSession
    \/ RejectEmptyQuery
    \/ AcceptQuery
    \/ DbLookup
    \/ ListFails
    \/ ListSucceeds
    \/ \E i \in 1..Len(enrich) : EnrichSucceeds(i)
    \/ \E i \in 1..Len(enrich) : EnrichFails(i)
    \/ Respond

Spec == Init /\ [][Next]_vars

(***************************************************************************)
(* The same request twice                                                  *)
(* A request whose search succeeded is sent again, with the same session   *)
(* and stored token, against an unchanged Gist Source: the listing page    *)
(* and the answer of get-gist-by-id for each gist are those of the first   *)
(* run.  The second query is the first one up to letter case.              *)
(***************************************************************************)
\* What get-gist-by-id may answer for a gist, the same in both runs
RepeatAnswers == {200, 404}

\* The q parameters the second run may carry
RepeatQueries == { <<"p">>, <<"P">>, <<"H">>, <<"h">>, <<"y">>, <<"Y">> }

\* The queries that differ from qy in letter case at most
CaseVariants(qy) ==
    { v \in RepeatQueries : toLowerCase(v) = toLowerCase(qy) }

InitRepeat ==
    /\ route \in {"user", "public"}
    /\ session = (route = "user")
    /\ q \in { v \in Queries : ~queryIsEmpty(v) }
    /\ upstream \in Pages
    /\ pc = "start"
    /\ authToken = "none"
    /\ listCalls = <<>>
    /\ getCalls = [id \in 1..Len(upstream) |-> 0]
    /\ filteredGists = <<>>
    /\ enrich = <<>>
    /\ order = <<>>
    /\ listStatus = 0
    /\ response = [status |-> 0, error |-> "", gists |-> <<>>]
    /\ run = 1
    /\ previous = [query |-> <<>>, gists |-> <<>>]
    /\ answers \in [1..Len(upstream) -> RepeatAnswers]
    /\ ComponentsIdle

\* get-gist-by-id for filteredGists[i] settles with the answer the Gist Source
\* has for that gist
SourceAnswers(i) ==
    /\ pc = "enriching"
    /\ enrich[i].st = "pending"
    /\ LET gist == filteredGists[i]
       IN  enrich' = [enrich EXCEPT ![i] =
                        IF answers[gist.id] = 200
                        THEN enrichTry(gist, FullGist(upstream[gist.id]))
                        ELSE enrichCatch(gist, answers[gist.id])]
    /\ order' = Append(order, i)
    /\ UNCHANGED << route, session, q, upstream, pc, authToken, listCalls, getCalls,
                    filteredGists, listStatus, response >>
    /\ UNCHANGED << repeatVars, componentVars >>

\* The request is sent again after its search succeeded; with the same session
\* and stored token the handler reaches its listing call with the same
\* credential
Repeat ==
    /\ pc = "done"
    /\ run = 1
    /\ response.status = 200
    /\ q' \in CaseVariants(q)
    /\ previous' = [query |-> q, gists |-> response.gists]
    /\ run' = 2
    /\ pc' = "list"
    /\ listCalls' = <<>>
    /\ getCalls' = [id \in 1..Len(upstream) |-> 0]
    /\ filteredGists' = <<>>
    /\ enrich' = <<>>
    /\ order' = <<>>
    /\ listStatus' = 0
    /\ response' = [status |-> 0, error |-> "", gists |-> <<>>]
    /\ UNCHANGED << route, session, upstream, authToken, answers >>
    /\ UNCHANGED componentVars

NextRepeat ==
    \/ AcceptQuery
    \/ DbLookup
    \/ ListSucceeds
    \/ \E i \in 1..Len(enrich) : SourceAnswers(i)
    \/ Respond
    \/ Repeat

SpecRepeat == InitRepeat /\ [][NextRepeat]_vars

(***************************************************************************)
(* PATCH and DELETE /api/gists/:id, in the version that checks ownership   *)
(* One request is followed from its arrival to its HTTP response.  The     *)
(* Gist Source holds at most one gist under :id.                           *)
(***************************************************************************)
\* Owner logins of gists and names of session users
Logins == {"ann", "bob"}

\* session.user?.name, or "null" when getServerSession returned null
SessionNames == Logins \cup {"undefined", "null"}

\* Statuses of a failed call to the Gist Source
HubErrors == {401, 404, 500}

\* NextResponse.json({ error }, { status }) and NextResponse.json(data)
IdResponse(status, message) == [status |-> status, error |-> message]

\* gist.owner is there: gist.owner.login does not throw
hasOwner(gist) == gist.owner # "undefined"

\* Mutant: the ownership test lets every user through
ownerDiffersNever(gist, name) == FALSE

\* if (gist.owner.login !== session.user?.name)
ownerDiffers(gist, name) == gist.owner # name

\* The outer catch: 404, 401, and 500 for everything else; err = 0 is an
\* error without a status
idCatch(err, method) ==
    IF err = 404 THEN IdResponse(404, "Gist not found")
    ELSE IF err = 401
    THEN IdResponse(401, "Invalid GitHub token. Please update your token in the profile page.")
    ELSE IdResponse(500, IF method = "PATCH" THEN "Failed to update gist"
                                            ELSE "Failed to delete gist")

\* The catch around the ownership check and the write: 404 is answered here,
\* everything else is thrown again for the outer catch
ownershipCatch(err, method) ==
    IF err = 404 THEN IdResponse(404, "Gist not found") ELSE idCatch(err, method)

\* The request github.updateGist / github.deleteGist sends
writeCall(method) == IF method = "PATCH" THEN "updateGist" ELSE "deleteGist"

\* The gist the Gist Source holds after a successful write
written(gist, req) ==
    IF req.method = "PATCH"
    THEN [gist EXCEPT !.description = req.description]
    ELSE [gist EXCEPT !.exists = FALSE]

\* What the actions of this component leave alone
outsideGistById == << searchVars, publicVars, dbVars, pageVars, mineVars >>

InitGistById ==
    /\ SearchIdle
    /\ PublicGistsIdle
    /\ DbIdle
    /\ SearchPageIdle
    /\ MyGistsIdle
    /\ idRequest \in [method : {"PATCH", "DELETE"}, name : SessionNames,
                      token : BOOLEAN, description : {"d1"}]
    /\ hub \in [exists : BOOLEAN, owner : Logins \cup {"undefined"},
                description : {"d0"}]
    /\ idPc = "start"
    /\ gotGist = [status |-> 0, gist |-> hub]
    /\ hubCalls = <<>>
    /\ idResponse = [status |-> 0, error |-> ""]

\* if (!session) return 401
IdCheckSession ==
    /\ idPc = "start"
    /\ IF idRequest.name = "null"
       THEN /\ idResponse' = IdResponse(401, "Unauthorized")
            /\ idPc' = "done"
       ELSE /\ idPc' = IF idRequest.method = "PATCH" THEN "body" ELSE "db"
            /\ UNCHANGED idResponse
    /\ UNCHANGED << idRequest, hub, gotGist, hubCalls >>
    /\ UNCHANGED outsideGistById

\* PATCH: const body = await request.json(), which rejects on a malformed body
IdParseBody ==
    /\ idPc = "body"
    /\ \E parsed \in BOOLEAN :
          IF parsed
          THEN /\ idPc' = "db"
               /\ UNCHANGED idResponse
          ELSE /\ idResponse' = idCatch(0, idRequest.method)
               /\ idPc' = "done"
    /\ UNCHANGED << idRequest, hub, gotGist, hubCalls >>
    /\ UNCHANGED outsideGistById

\* await dbConnect(); User.findById(...); if (!user?.githubToken) return 400
IdDbLookup ==
    /\ idPc = "db"
    /\ \E thrown \in BOOLEAN :
          IF thrown
          THEN /\ idResponse' = idCatch(0, idRequest.method)
               /\ idPc' = "done"
          ELSE IF ~idRequest.token
          THEN /\ idResponse' = IdResponse(400,
                    "GitHub token not found. Please add your token in the profile page.")
               /\ idPc' = "done"
          ELSE /\ idPc' = "get"
               /\ UNCHANGED idResponse
    /\ UNCHANGED << idRequest, hub, gotGist, hubCalls >>
    /\ UNCHANGED outsideGistById

\* const gist = await github.getGist(id) returns the gist
IdGetGistSucceeds ==
    /\ idPc = "get"
    /\ hub.exists
    /\ hubCalls' = Append(hubCalls, "getGist")
    /\ gotGist' = [status |-> 200, gist |-> hub]
    /\ idPc' = "check"
    /\ UNCHANGED << idRequest, hub, idResponse >>
    /\ UNCHANGED outsideGistById

\* github.getGist(id) rejects: 404 is answered by the inner catch
IdGetGistFails ==
    /\ idPc = "get"
    /\ \E err \in HubErrors :
          /\ gotGist' = [status |-> err, gist |-> hub]
          /\ idResponse' = ownershipCatch(err, idRequest.method)
    /\ hubCalls' = Append(hubCalls, "getGist")
    /\ idPc' = "done"
    /\ UNCHANGED << idRequest, hub >>
    /\ UNCHANGED outsideGistById

\* The ownership check; gist.owner.login throws a TypeError on a gist without
\* owner, which the inner catch throws again
IdCheckOwner ==
    /\ idPc = "check"
    /\ IF ~hasOwner(gotGist.gist)
       THEN /\ idResponse' = ownershipCatch(0, idRequest.method)
            /\ idPc' = "done"
       ELSE IF ownerDiffers(gotGist.gist, idRequest.name)
       THEN /\ idResponse' = IdResponse(403,
                 IF idRequest.method = "PATCH" THEN "You can only edit your own gists"
                                               ELSE "You can only delete your own gists")
            /\ idPc' = "done"
       ELSE /\ idPc' = "write"
            /\ UNCHANGED idResponse
    /\ UNCHANGED << idRequest, hub, gotGist, hubCalls >>
    /\ UNCHANGED outsideGistById

\* await github.updateGist(...) / github.deleteGist(id) succeeds
IdWriteSucceeds ==
    /\ idPc = "write"
    /\ hubCalls' = Append(hubCalls, writeCall(idRequest.method))
    /\ hub' = written(hub, idRequest)
    /\ idResponse' = IdResponse(200, "")
    /\ idPc' = "done"
    /\ UNCHANGED << idRequest, gotGist >>
    /\ UNCHANGED outsideGistById

\* The write rejects and the Gist Source keeps the gist as it was
IdWriteFails ==
    /\ idPc = "write"
    /\ hubCalls' = Append(hubCalls, writeCall(idRequest.method))
    /\ \E err \in HubErrors : idResponse' = ownershipCatch(err, idRequest.method)
    /\ idPc' = "done"
    /\ UNCHANGED << idRequest, hub, gotGist >>
    /\ UNCHANGED outsideGistById

NextGistById ==
    \/ IdCheckSession
    \/ IdParseBody
    \/ IdDbLookup
    \/ IdGetGistSucceeds
    \/ IdGetGistFails
    \/ IdCheckOwner
    \/ IdWriteSucceeds
    \/ IdWriteFails

SpecGistById == InitGistById /\ [][NextGistById]_vars

(***************************************************************************)
(* GET /api/public-gists                                                   *)
(* One request is followed from its arrival to its HTTP response.  The     *)
(* Gist Source holds the public gists; its answer to the listing call is   *)
(* an input.                                                               *)
(***************************************************************************)
\* Largest number of public gists the Gist Source holds
MaxPublic == 3

\* Values of the per_page and page parameters of the request URL
PageParams == { NoParam, <<>>, <<"0">>, <<"1">>, <<"2">>, <<"x">> }

\* Headers of a rejected listing call
RemainingHeaders == { Absent, <<"0">>, <<"5">> }
ResetHeaders == { Absent, <<"1", "7">> }

\* Status of a rejected listing call; 0 is an error without a status
PublicListErrors == {0, 401, 403, 500}

DigitChars == << "0", "1", "2", "3", "4", "5", "6", "7", "8", "9" >>

IsDigit(c) == \E k \in 1..10 : DigitChars[k] = c

DigitValue(c) == (CHOOSE k \in 1..10 : DigitChars[k] = c) - 1

RECURSIVE decimal(_)
decimal(s) ==
    IF s = <<>> THEN 0
    ELSE 10 * decimal(SubSeq(s, 1, Len(s) - 1)) + DigitValue(s[Len(s)])

\* Number(v) of a parameter or header value: null and the blank string are 0,
\* a run of digits is its value, anything else is NaN
Number(v) ==
    IF v = NoParam \/ trim(v) = <<>> THEN [nan |-> FALSE, val |-> 0]
    ELSE IF \A k \in 1..Len(trim(v)) : IsDigit(trim(v)[k])
    THEN [nan |-> FALSE, val |-> decimal(trim(v))]
    ELSE [nan |-> TRUE, val |-> 0]

\* Number(...) || fallback
orDefault(n, fallback) == IF n.nan \/ n.val = 0 THEN fallback ELSE n.val

\* const per_page = Number(searchParams.get("per_page")) || 30
perPageOf(req) == orDefault(Number(req.per_page), 30)

\* const page = Number(searchParams.get("page")) || 1
pageOf(req) == orDefault(Number(req.page), 1)

\* github.listPublicGists(per_page, page): the request it sends with the
\* built-in token
listPublicGists(per_page, page) ==
    [endpoint |-> "GET /gists/public", token |-> "default",
     per_page |-> per_page, page |-> page]

\* The page of the public gists a listing request asks for
PageOf(gists, per_page, page) ==
    LET first == (page - 1) * per_page + 1
        last  == IF page * per_page < Len(gists) THEN page * per_page ELSE Len(gists)
    IN  SubSeq(gists, first, last)

\* NextResponse.json(gists) and NextResponse.json({ error }, { status }); reset
\* is the date the message carries
NoReset == [given |-> FALSE, soon |-> FALSE, ms |-> 0]

PgResponse(status, message, reset, gists) ==
    [status |-> status, error |-> message, reset |-> reset, gists |-> gists]

\* The outer catch
publicGistsOuterCatch ==
    PgResponse(500, "Failed to fetch public gists", NoReset, <<>>)

\* resetTime ? new Date(Number(resetTime) * 1000).toISOString() : "soon"
resetDate(resetTime) ==
    IF Truthy(resetTime)
    THEN [given |-> TRUE, soon |-> FALSE, ms |-> Number(resetTime).val * 1000]
    ELSE [given |-> TRUE, soon |-> TRUE, ms |-> 0]

\* Mutant: the inner catch without the rate-limit case
publicGistsCatchNoRateLimit(err) ==
    IF err.status = 401
    THEN PgResponse(401, "Unable to access GitHub API. Try again later.", NoReset, <<>>)
    ELSE publicGistsOuterCatch

\* The inner catch: 429 for a rate limit, 401, and everything else thrown
\* again for the outer catch; toISOString throws on an invalid date
publicGistsCatch(err) ==
    IF err.status = 403 /\ err.remaining = <<"0">>
    THEN IF Truthy(err.reset) /\ Number(err.reset).nan
         THEN publicGistsOuterCatch
         ELSE PgResponse(429, "GitHub API rate limit exceeded. Rate limit will reset at",
                         resetDate(err.reset), <<>>)
    ELSE IF err.status = 401
    THEN PgResponse(401, "Unable to access GitHub API. Try again later.", NoReset, <<>>)
    ELSE publicGistsOuterCatch

\* What the actions of this component leave alone
outsidePublicGists == << searchVars, gistVars, dbVars, pageVars, mineVars >>

InitPublicGists ==
    /\ SearchIdle
    /\ GistByIdIdle
    /\ DbIdle
    /\ SearchPageIdle
    /\ MyGistsIdle
    /\ pgRequest \in [per_page : PageParams, page : PageParams]
    /\ publicGists \in { [k \in 1..n |-> k] : n \in 0..MaxPublic }
    /\ pgPc = "start"
    /\ pgCalls = <<>>
    /\ pgOutcome = [status |-> 0, remaining |-> Absent, reset |-> Absent, data |-> <<>>]
    /\ pgResponse = PgResponse(0, "", NoReset, <<>>)

\* The parameters are read, the client is created and the listing call is issued
PgListCall ==
    /\ pgPc = "start"
    /\ pgCalls' = Append(pgCalls, listPublicGists(perPageOf(pgRequest), pageOf(pgRequest)))
    /\ pgPc' = "list"
    /\ UNCHANGED << pgRequest, publicGists, pgOutcome, pgResponse >>
    /\ UNCHANGED outsidePublicGists

\* The listing call returns the page asked for
PgListSucceeds ==
    /\ pgPc = "list"
    /\ LET call == pgCalls[Len(pgCalls)]
           data == PageOf(publicGists, call.per_page, call.page)
       IN  /\ pgOutcome' = [status |-> 200, remaining |-> Absent, reset |-> Absent,
                            data |-> data]
           /\ pgResponse' = PgResponse(200, "", NoReset, data)
    /\ pgPc' = "done"
    /\ UNCHANGED << pgRequest, publicGists, pgCalls >>
    /\ UNCHANGED outsidePublicGists

\* The listing call rejects
PgListFails ==
    /\ pgPc = "list"
    /\ \E status \in PublicListErrors, remaining \in RemainingHeaders,
          reset \in ResetHeaders :
          /\ status = 0 => (remaining = Absent /\ reset = Absent)
          /\ pgOutcome' = [status |-> status, remaining |-> remaining,
                           reset |-> reset, data |-> <<>>]
          /\ pgResponse' = publicGistsCatch(pgOutcome')
    /\ pgPc' = "done"
    /\ UNCHANGED << pgRequest, publicGists, pgCalls >>
    /\ UNCHANGED outsidePublicGists

NextPublicGists ==
    \/ PgListCall
    \/ PgListSucceeds
    \/ PgListFails

SpecPublicGists == InitPublicGists /\ [][NextPublicGists]_vars

(***************************************************************************)
(* dbConnect and its process-wide cache                                    *)
(* Request handlers of one process call dbConnect concurrently; each call  *)
(* runs to its await in one step and resumes once the promise has settled. *)
(***************************************************************************)
\* Number of dbConnect calls followed
MaxCallers == 3

Callers == 1..MaxCallers

\* Mutant: a rejected promise counts as no promise, so the call connects again
noPromiseOrRejected(cache) == cache.promise \in {"null", "rejected"}

\* if (!cached.promise)
noPromise(cache) == cache.promise = "null"

\* What the actions of this component leave alone
outsideDb == << searchVars, gistVars, publicVars, pageVars, mineVars >>

\* cached = global.mongoose = { conn: null, promise: null }
InitDb ==
    /\ SearchIdle
    /\ GistByIdIdle
    /\ PublicGistsIdle
    /\ SearchPageIdle
    /\ MyGistsIdle
    /\ cached = [conn |-> FALSE, promise |-> "null"]
    /\ attempts = 0
    /\ callers = [c \in Callers |-> [pc |-> "idle", saw |-> "null", promise |-> 0]]

\* A call of dbConnect up to its return or its await: the cached connection,
\* or else the cached promise, created by mongoose.connect if there is none.
\* saw is the promise state the call found, promise the attempt it awaits.
DbCall(c) ==
    /\ callers[c].pc = "idle"
    /\ IF cached.conn
       THEN /\ callers' = [callers EXCEPT ![c] =
                             [pc |-> "returned", saw |-> cached.promise, promise |-> 0]]
            /\ UNCHANGED << cached, attempts >>
       ELSE /\ attempts' = IF noPromise(cached) THEN attempts + 1 ELSE attempts
            /\ cached' = IF noPromise(cached)
                         THEN [cached EXCEPT !.promise = "pending"]
                         ELSE cached
            /\ callers' = [callers EXCEPT ![c] =
                             [pc |-> "awaiting", saw |-> cached.promise,
                              promise |-> attempts']]
    /\ UNCHANGED outsideDb

\* mongoose.connect resolves
ConnectResolves ==
    /\ cached.promise = "pending"
    /\ cached' = [cached EXCEPT !.promise = "fulfilled"]
    /\ UNCHANGED << attempts, callers >>
    /\ UNCHANGED outsideDb

\* mongoose.connect rejects
ConnectRejects ==
    /\ cached.promise = "pending"
    /\ cached' = [cached EXCEPT !.promise = "rejected"]
    /\ UNCHANGED << attempts, callers >>
    /\ UNCHANGED outsideDb

\* cached.conn = await cached.promise; return cached.conn -- or the await throws
DbResume(c) ==
    /\ callers[c].pc = "awaiting"
    /\ cached.promise \in {"fulfilled", "rejected"}
    /\ IF cached.promise = "fulfilled"
       THEN /\ cached' = [cached EXCEPT !.conn = TRUE]
            /\ callers' = [callers EXCEPT ![c].pc = "returned"]
       ELSE /\ callers' = [callers EXCEPT ![c].pc = "threw"]
            /\ UNCHANGED cached
    /\ UNCHANGED attempts
    /\ UNCHANGED outsideDb

NextDb ==
    \/ \E c \in Callers : DbCall(c)
    \/ ConnectResolves
    \/ ConnectRejects
    \/ \E c \in Callers : DbResume(c)

SpecDb == InitDb /\ [][NextDb]_vars

(***************************************************************************)
(* The search page (SearchContent)                                         *)
(* The state of the component, the q parameter of its URL, the timers of   *)
(* its debounced search and the requests it has sent are followed through  *)
(* the user's typing and tab clicks.  A router.replace that changes the    *)
(* URL takes effect within the step that calls it: the component renders   *)
(* again with the new searchParams and runs the effects that depend on     *)
(* them.                                                                   *)
(***************************************************************************)
\* Number of times the user changes the text of the search box
MaxTyped == 2

\* Texts of the search box and values of the q parameter
ScQueries == { <<>>, <<" ">>, <<"a">>, <<"b">> }

\* The public gists GET /api/public-gists/search finds its results in
Corpus ==
    << [id |-> 1, owner |-> "ann", description |-> <<"a">>],
       [id |-> 2, owner |-> "bob", description |-> <<"a", "b">>] >>

\* The body of a 200 response of GET /api/public-gists/search?q=qy
searchResults(qy) ==
    SelectSeq(Corpus, LAMBDA g : includes(toLowerCase(g.description), toLowerCase(qy)))

\* The response is ok: the route answers 400 to a blank query, and 401 or 500
\* when its listing call fails
mayBeOk(qy) == ~queryIsEmpty(qy)

\* filterGistsByTab(tab, gistsToFilter), as far as it calls setGists
filterGistsByTab(tab, gistsToFilter, user) ==
    IF tab = "all" \/ user = "undefined"
    THEN gistsToFilter
    ELSE SelectSeq(gistsToFilter, LAMBDA g : g.owner = user)

\* const initialQuery = searchParams.get("q") || ""
initialQueryOf(url) == IF url = NoParam THEN <<>> ELSE url

\* The debounced functions of earlier renders keep their timers
orphaned(ts) == [k \in 1..Len(ts) |-> [ts[k] EXCEPT !.current = FALSE]]

\* debouncedSearch(qy) of the current render: its timer starts again with qy
debounce(ts, qy, tab) ==
    Append(SelectSeq(ts, LAMBDA t : ~t.current),
           [query |-> qy, tab |-> tab, current |-> TRUE])

\* The request performSearch(qy) sends; tab is the activeTab of its closure
searchRequest(n, qy, tab) == [id |-> n, query |-> qy, tab |-> tab]

NoSearch == [query |-> <<>>, outcome |-> "none", results |-> <<>>, shown |-> FALSE]

\* What the actions of this component leave alone
outsideSearchPage == << searchVars, gistVars, publicVars, dbVars, mineVars >>

\* The page after its first render and effects: a q parameter in the URL is
\* searched at once, and the text of the box starts the debounced search
InitSearchPage ==
    /\ SearchIdle
    /\ GistByIdIdle
    /\ PublicGistsIdle
    /\ DbIdle
    /\ MyGistsIdle
    /\ scUser \in {"undefined", "ann"}
    /\ urlQ \in {NoParam, <<"a">>}
    /\ searchQuery = initialQueryOf(urlQ)
    /\ activeTab = "all"
    /\ scGists = <<>>
    /\ scError = FALSE
    /\ instTab = "all"
    /\ typed = 0
    /\ tabUsed = FALSE
    /\ IF Truthy(initialQueryOf(urlQ))
       THEN /\ inFlight = { searchRequest(1, initialQueryOf(urlQ), "all") }
            /\ issued = 1
            /\ scLoading = TRUE
            /\ lastSearch = [NoSearch EXCEPT !.query = initialQueryOf(urlQ),
                                             !.outcome = "pending"]
       ELSE /\ inFlight = {}
            /\ issued = 0
            /\ scLoading = FALSE
            /\ lastSearch = NoSearch
    /\ timers = IF Truthy(trim(searchQuery)) THEN debounce(<<>>, searchQuery, "all")
                                             ELSE <<>>

\* The user changes the text of the box: setSearchQuery, then the effect on
\* searchQuery, which starts the debounced search or clears the list and
\* removes q from the URL
TypeQuery(qy) ==
    /\ typed < MaxTyped
    /\ qy # searchQuery
    /\ typed' = typed + 1
    /\ searchQuery' = qy
    /\ IF Truthy(trim(qy))
       THEN /\ timers' = debounce(timers, qy, instTab)
            /\ UNCHANGED << urlQ, instTab, scGists, lastSearch >>
       ELSE /\ scGists' = <<>>
            /\ lastSearch' = [lastSearch EXCEPT !.shown = FALSE]
            /\ IF urlQ # NoParam
               THEN /\ urlQ' = NoParam
                    /\ timers' = orphaned(timers)
                    /\ instTab' = activeTab
               ELSE UNCHANGED << urlQ, timers, instTab >>
    /\ UNCHANGED << scUser, activeTab, scLoading, scError, inFlight, issued, tabUsed >>
    /\ UNCHANGED outsideSearchPage

\* The oldest timer expires: performSearch(query) and router.replace with
\* q = query.  If that changes the URL, the effect on initialQuery searches
\* the new q once more, debouncedSearch is made anew and the effect on
\* searchQuery runs again with the text the box has now.
TimerFires ==
    /\ timers # <<>>
    /\ LET t == Head(timers)
           rest == Tail(timers)
           first == searchRequest(issued + 1, t.query, t.tab)
           second == searchRequest(issued + 2, t.query, activeTab)
       IN  IF ~Truthy(trim(t.query))
           THEN /\ timers' = rest
                /\ UNCHANGED << urlQ, instTab, scGists, scLoading, scError,
                                inFlight, issued, lastSearch >>
           ELSE /\ scLoading' = TRUE
                /\ scError' = FALSE
                /\ lastSearch' = [lastSearch EXCEPT !.query = t.query,
                                      !.outcome = "pending",
                                      !.shown = IF urlQ # t.query /\ ~Truthy(trim(searchQuery))
                                                THEN FALSE ELSE @]
                /\ IF urlQ = t.query
                   THEN /\ inFlight' = inFlight \cup {first}
                        /\ issued' = issued + 1
                        /\ timers' = rest
                        /\ UNCHANGED << urlQ, instTab, scGists >>
                   ELSE /\ inFlight' = inFlight \cup {first, second}
                        /\ issued' = issued + 2
                        /\ instTab' = activeTab
                        /\ IF Truthy(trim(searchQuery))
                           THEN /\ urlQ' = t.query
                                /\ timers' = debounce(orphaned(rest), searchQuery, activeTab)
                                /\ UNCHANGED scGists
                           ELSE /\ urlQ' = NoParam
                                /\ timers' = orphaned(rest)
                                /\ scGists' = <<>>
    /\ UNCHANGED << scUser, searchQuery, activeTab, typed, tabUsed >>
    /\ UNCHANGED outsideSearchPage

\* The response of a request arrives: filterGistsByTab with the results, or
\* the catch block; finally setLoading(false)
SearchResponse(r) ==
    /\ r \in inFlight
    /\ inFlight' = inFlight \ {r}
    /\ scLoading' = FALSE
    /\ \E ok \in {o \in BOOLEAN : o => mayBeOk(r.query)} :
          /\ IF ok
             THEN /\ scGists' = filterGistsByTab(r.tab, searchResults(r.query), scUser)
                  /\ UNCHANGED scError
             ELSE /\ scGists' = <<>>
                  /\ scError' = TRUE
          /\ lastSearch' =
                [lastSearch EXCEPT
                    !.outcome = IF r.id # issued THEN @ ELSE IF ok THEN "ok" ELSE "failed",
                    !.results = IF ok THEN searchResults(r.query) ELSE @,
                    !.shown = ok]
    /\ UNCHANGED << scUser, searchQuery, urlQ, activeTab, timers, instTab, issued,
                    typed, tabUsed >>
    /\ UNCHANGED outsideSearchPage

\* handleTabChange(tab)
TabChange(tab) ==
    /\ activeTab' = tab
    /\ scGists' = filterGistsByTab(tab, scGists, scUser)
    /\ tabUsed' = TRUE
    /\ UNCHANGED << scUser, searchQuery, urlQ, scLoading, scError, timers, instTab,
                    inFlight, issued, typed, lastSearch >>
    /\ UNCHANGED outsideSearchPage

NextSearchPage ==
    \/ \E qy \in ScQueries : TypeQuery(qy)
    \/ TimerFires
    \/ \E r \in inFlight : SearchResponse(r)
    \/ \E tab \in {"all", "my"} : TabChange(tab)

SpecSearchPage == InitSearchPage /\ [][NextSearchPage]_vars

(***************************************************************************)
(* The My Gists page (GistsPage)                                           *)
(* The page of a signed-in user is followed from its first render through  *)
(* typing, the Search, Clear and Load More buttons and the arrival of the  *)
(* responses to its requests.  Deleting a gist is left out.                *)
(***************************************************************************)
\* Number of user actions followed
MaxClicks == 4

\* The page size the page asks for and compares data.length with
PageSize == 4

\* Texts of the search box
SearchTerms == { <<>>, <<"a">>, <<"b">> }

\* The gists of the user at the Gist Source, newest first
MyCorpus ==
    [k \in 1..5 |-> [id |-> k, description |-> IF k <= 4 THEN <<"a">> ELSE <<"b">>]]

\* The body of a 200 response of GET /api/gists?page=..&per_page=..
apiGists(page, per_page) == PageOf(MyCorpus, per_page, page)

\* The body of a 200 response of GET /api/gists/search?q=..&page=..&per_page=..:
\* the handler reads q only, so every page is the whole result
apiGistsSearch(qy, page, per_page) ==
    SelectSeq(MyCorpus, LAMBDA g : includes(toLowerCase(g.description), toLowerCase(qy)))

\* Outcomes of a request: a 200, the 400 'GitHub token not found', any other
\* failure
FetchOutcomes == {"ok", "notoken", "failed"}

\* The requests of the two effects
listRequest(n, page) ==
    [id |-> n, kind |-> "list", query |-> <<>>, page |-> page]

searchPageRequest(n, term, page) ==
    [id |-> n, kind |-> "search", query |-> term, page |-> page]

\* What the actions of this component leave alone
outsideMyGists == << searchVars, gistVars, publicVars, dbVars, pageVars >>

\* The page after its first render and effects: the first page of the user's
\* gists has been asked for
InitMyGists ==
    /\ SearchIdle
    /\ GistByIdIdle
    /\ PublicGistsIdle
    /\ DbIdle
    /\ SearchPageIdle
    /\ searchTerm = <<>>
    /\ isSearching = FALSE
    /\ searchPage = 1
    /\ searchHasMore = TRUE
    /\ myGists = <<>>
    /\ myLoading = TRUE
    /\ myError = FALSE
    /\ myPage = 1
    /\ hasMore = TRUE
    /\ hasToken = TRUE
    /\ myInFlight = { listRequest(1, 1) }
    /\ myIssued = 1
    /\ clicks = 0
    /\ fromSearch = FALSE

\* The list and its buttons are rendered
listShown ==
    /\ hasToken
    /\ ~(myLoading /\ (myPage = 1 \/ searchPage = 1))
    /\ myGists # <<>>

\* onChange of the search box: setSearchTerm; in search mode the search effect
\* runs again with the new term and the current searchPage
TypeTerm(term) ==
    /\ hasToken
    /\ clicks < MaxClicks
    /\ term # searchTerm
    /\ clicks' = clicks + 1
    /\ searchTerm' = term
    /\ IF isSearching /\ Truthy(trim(term))
       THEN /\ myInFlight' = myInFlight \cup {searchPageRequest(myIssued + 1, term, searchPage)}
            /\ myIssued' = myIssued + 1
            /\ myLoading' = (searchPage = 1)
       ELSE UNCHANGED << myInFlight, myIssued, myLoading >>
    /\ UNCHANGED << isSearching, searchPage, searchHasMore, myGists, myError, myPage,
                    hasMore, hasToken, fromSearch >>
    /\ UNCHANGED outsideMyGists

\* handleSearch: a blank term leaves search mode and lists page 1 again; any
\* other term enters search mode at searchPage 1.  An effect runs only when
\* one of its dependencies changed.
SubmitSearch ==
    /\ hasToken
    /\ ~myLoading
    /\ clicks < MaxClicks
    /\ clicks' = clicks + 1
    /\ IF ~Truthy(trim(searchTerm))
       THEN /\ isSearching' = FALSE
            /\ myPage' = 1
            /\ hasMore' = TRUE
            /\ IF isSearching \/ myPage # 1
               THEN /\ myInFlight' = myInFlight \cup {listRequest(myIssued + 1, 1)}
                    /\ myIssued' = myIssued + 1
                    /\ myLoading' = TRUE
               ELSE UNCHANGED << myInFlight, myIssued, myLoading >>
            /\ UNCHANGED << searchPage, myError >>
       ELSE /\ isSearching' = TRUE
            /\ searchPage' = 1
            /\ myError' = FALSE
            /\ myLoading' = TRUE
            /\ IF ~isSearching \/ searchPage # 1
               THEN /\ myInFlight' = myInFlight \cup
                           {searchPageRequest(myIssued + 1, searchTerm, 1)}
                    /\ myIssued' = myIssued + 1
               ELSE UNCHANGED << myInFlight, myIssued >>
            /\ UNCHANGED << myPage, hasMore >>
    /\ UNCHANGED << searchTerm, searchHasMore, myGists, hasToken, fromSearch >>
    /\ UNCHANGED outsideMyGists

\* handleLoadMore: the next page of the current mode
LoadMore ==
    /\ listShown
    /\ ~myLoading
    /\ (isSearching /\ searchHasMore) \/ (~isSearching /\ hasMore)
    /\ clicks < MaxClicks
    /\ clicks' = clicks + 1
    /\ IF isSearching
       THEN /\ searchPage' = searchPage + 1
            /\ IF Truthy(trim(searchTerm))
               THEN /\ myInFlight' = myInFlight \cup
                           {searchPageRequest(myIssued + 1, searchTerm, searchPage + 1)}
                    /\ myIssued' = myIssued + 1
                    /\ myLoading' = FALSE
               ELSE UNCHANGED << myInFlight, myIssued, myLoading >>
            /\ UNCHANGED << myPage, hasMore >>
       ELSE /\ myPage' = myPage + 1
            /\ hasMore' = TRUE
            /\ myInFlight' = myInFlight \cup {listRequest(myIssued + 1, myPage + 1)}
            /\ myIssued' = myIssued + 1
            /\ UNCHANGED << searchPage, myLoading >>
    /\ UNCHANGED << searchTerm, isSearching, searchHasMore, myGists, myError, hasToken,
                    fromSearch >>
    /\ UNCHANGED outsideMyGists

\* handleResetSearch: back to page 1 of the user's gists
ResetSearch ==
    /\ hasToken
    /\ isSearching
    /\ clicks < MaxClicks
    /\ clicks' = clicks + 1
    /\ searchTerm' = <<>>
    /\ isSearching' = FALSE
    /\ myPage' = 1
    /\ hasMore' = TRUE
    /\ myInFlight' = myInFlight \cup {listRequest(myIssued + 1, 1)}
    /\ myIssued' = myIssued + 1
    /\ myLoading' = TRUE
    /\ UNCHANGED << searchPage, searchHasMore, myGists, myError, hasToken, fromSearch >>
    /\ UNCHANGED outsideMyGists

\* The response to a request arrives: page 1 replaces the list, any other page
\* is appended to it
MyResponse(r) ==
    /\ r \in myInFlight
    /\ myInFlight' = myInFlight \ {r}
    /\ myLoading' = FALSE
    /\ \E outcome \in FetchOutcomes :
          LET data == IF r.kind = "list" THEN apiGists(r.page, PageSize)
                      ELSE apiGistsSearch(r.query, r.page, PageSize)
          IN  IF outcome = "ok"
              THEN /\ myGists' = IF r.page = 1 THEN data ELSE myGists \o data
                   /\ hasMore' = IF r.kind = "list" /\ Len(data) < PageSize
                                 THEN FALSE ELSE hasMore
                   /\ searchHasMore' = IF r.kind = "search" THEN Len(data) >= PageSize
                                       ELSE searchHasMore
                   /\ fromSearch' = (r.kind = "search" /\ (r.page = 1 \/ fromSearch))
                   /\ UNCHANGED << hasToken, myError >>
              ELSE /\ hasToken' = IF outcome = "notoken" THEN FALSE ELSE hasToken
                   /\ myError' = IF outcome = "failed" THEN TRUE ELSE myError
                   /\ UNCHANGED << myGists, hasMore, searchHasMore, fromSearch >>
    /\ UNCHANGED << searchTerm, isSearching, searchPage, myPage, myIssued, clicks >>
    /\ UNCHANGED outsideMyGists

NextMyGists ==
    \/ \E term \in SearchTerms : TypeTerm(term)
    \/ SubmitSearch
    \/ LoadMore
    \/ ResetSearch
    \/ \E r \in myInFlight : MyResponse(r)

SpecMyGists == InitMyGists /\ [][NextMyGists]_vars

(***************************************************************************)
(* Vocabulary of the properties                                            *)
(***************************************************************************)
\* text contains qy as a case-insensitive substring
ContainsCI(text, qy) == includes(toLowerCase(text), toLowerCase(qy))

DescriptionMatches(gist, qy) == ContainsCI(gist.description, qy)

FilenameMatches(gist, qy) ==
    \E fn \in DOMAIN gist.files : ContainsCI(fn, qy)

\* Some file of this representation of the gist carries content containing qy
ContentMatches(gist, qy) ==
    \E fn \in DOMAIN gist.files :
        /\ gist.files[fn].content # Absent
        /\ ContainsCI(gist.files[fn].content, qy)

AnyMatch(gist, qy) ==
    DescriptionMatches(gist, qy) \/ FilenameMatches(gist, qy) \/ ContentMatches(gist, qy)

Succeeded == pc = "done" /\ response.status = 200

ResultIds == { response.gists[k].id : k \in 1..Len(response.gists) }

NoGetCalls == \A id \in DOMAIN getCalls : getCalls[id] = 0

NoSourceCalls == listCalls = <<>> /\ NoGetCalls

\* Position of the gist with this id on the listed page
PosInListing(id) == CHOOSE k \in 1..Len(upstream) : upstream[k].id = id

\* Every get-gist-by-id call of this search returned the unchanged gist
AllCallsSucceededUnchanged ==
    \A i \in 1..Len(enrich) :
        \/ enrich[i].st = "kept"
        \/ enrich[i].st = "fetched" /\ enrich[i].value = FullGist(upstream[filteredGists[i].id])

(***************************************************************************)
(* C1  Soundness of search.  Every gist of a successful response, in the    *)
(* representation returned, has a description, a filename or a file        *)
(* content that contains the query as a case-insensitive substring.        *)
(***************************************************************************)
C1_Soundness ==
    Succeeded =>
        \A k \in 1..Len(response.gists) : AnyMatch(response.gists[k], query)

\* A gist was fetched and is returned for its fetched content alone.
C1_Witness ==
    /\ Succeeded
    /\ \E k \in 1..Len(response.gists) :
          /\ ContentMatches(response.gists[k], query)
          /\ ~DescriptionMatches(response.gists[k], query)
          /\ ~FilenameMatches(response.gists[k], query)
          /\ getCalls[response.gists[k].id] = 1

C3_EmptyQueryAlways400 ==
    (pc = "done" /\ trim(query) = <<>>) =>
        /\ response = ErrorResponse(400, "Search query is required")
        /\ NoSourceCalls

\* C3 as amended: the 400 is the answer on the public route and, on
\* /api/gists/search, for a request with a session; without a session that
\* route answers 401 "Unauthorized" first.  No call to the Gist Source is
\* issued in either case, at any point of the request.
C3_EmptyQuery ==
    trim(query) = <<>> =>
        /\ NoSourceCalls
        /\ pc \in {"start", "done"}
        /\ pc = "done" =>
              response = IF route = "user" /\ ~session
                         THEN ErrorResponse(401, "Unauthorized")
                         ELSE ErrorResponse(400, "Search query is required")

\* A whitespace-only query was answered 400.
C3_Witness ==
    /\ pc = "done"
    /\ q = <<" ">>
    /\ response.status = 400

(***************************************************************************)
(* C4  Order preservation.  The gists of a search result are in the        *)
(* relative order of the listing response, whatever order the              *)
(* get-gist-by-id calls completed or failed in.                            *)
(***************************************************************************)
C4_OrderPreserved ==
    Succeeded =>
        \A j, k \in 1..Len(response.gists) :
            j < k => PosInListing(response.gists[j].id) < PosInListing(response.gists[k].id)

\* Two gists are returned whose calls completed in the reverse of the listing
\* order, one of them by failing.
C4_Witness ==
    /\ Succeeded
    /\ Len(response.gists) = 2
    /\ order = <<2, 1>>
    /\ enrich[1].st = "failed"
    /\ enrich[2].st = "fetched"

(***************************************************************************)
(* C5  Listing fails with 401.  The search ends with status 401, its       *)
(* response holds no gists, and no get-gist-by-id call is issued.          *)
(***************************************************************************)
C5_ListingUnauthorized ==
    listStatus = 401 =>
        /\ pc = "done"
        /\ response.status = 401
        /\ response.gists = <<>>
        /\ NoGetCalls
        /\ Len(listCalls) = 1

\* The listing call of the session route failed with 401 although the page
\* upstream holds a gist matching the query.
C5_Witness ==
    /\ listStatus = 401
    /\ route = "user"
    /\ pc = "done"
    /\ \E k \in 1..Len(upstream) : AnyMatch(Summary(upstream[k]), query)

(***************************************************************************)
(* C6  A failed get-gist-by-id call never aborts the search.  Whatever the *)
(* error, the search ends with a success response, the failed gist is kept *)
(* in its listing form, and every gist is in the result exactly when its   *)
(* own enriched form matches, as it would be had no call failed.           *)
(***************************************************************************)
C6_EnrichmentFailureNotFatal ==
    (\E i \in 1..Len(enrich) : enrich[i].st = "failed") =>
        /\ pc \in {"enriching", "done"}
        /\ pc = "done" =>
              /\ response.status = 200
              /\ \A i \in 1..Len(enrich) :
                    /\ enrich[i].st = "failed" =>
                          enrich[i].value = Summary(upstream[filteredGists[i].id])
                    /\ filteredGists[i].id \in ResultIds <=> AnyMatch(enrich[i].value, query)

\* One call failed with 401, another gist was fetched, and both are returned.
C6_Witness ==
    /\ Succeeded
    /\ Len(response.gists) = 2
    /\ \E i, j \in 1..Len(enrich) :
          /\ enrich[i].st = "failed" /\ enrich[i].code = 401
          /\ enrich[j].st = "fetched"

(***************************************************************************)
(* C7  Enrichment of G fails with not-found.  If G's description or a      *)
(* filename matches, G is in the result, in its listing form; a gist that  *)
(* could match only through content the listing does not inline, and whose *)
(* content was not fetched, is absent: unfetched content never matches.    *)
(***************************************************************************)
C7_NotFoundEnrichment ==
    Succeeded =>
        \A k \in 1..Len(upstream) :
            LET s == Summary(upstream[k])
                notFound == \E i \in 1..Len(enrich) :
                                /\ filteredGists[i].id = k
                                /\ enrich[i].st = "failed"
                                /\ enrich[i].code = 404
                fetched == \E i \in 1..Len(enrich) :
                                filteredGists[i].id = k /\ enrich[i].st = "fetched"
            IN  /\ (notFound /\ (DescriptionMatches(s, query) \/ FilenameMatches(s, query)))
                      => k \in ResultIds
                /\ notFound =>
                      \A j \in 1..Len(response.gists) :
                          response.gists[j].id = k => response.gists[j] = s
                /\ (~fetched /\ ~DescriptionMatches(s, query) /\ ~FilenameMatches(s, query)
                             /\ ~ContentMatches(s, query))
                      => k \notin ResultIds

\* Gist 1 matched by its description and is returned after a 404, its content
\* still missing; gist 2, whose real content alone contains the query, is not
\* returned.
C7_Witness ==
    /\ Succeeded
    /\ Len(upstream) = 2
    /\ \E i \in 1..Len(enrich) :
          /\ filteredGists[i].id = 1
          /\ enrich[i].st = "failed" /\ enrich[i].code = 404
    /\ DescriptionMatches(Summary(upstream[1]), query)
    /\ ContentMatches(FullGist(upstream[1]), query)
    /\ ResultIds = {1}
    /\ \E fn \in DOMAIN response.gists[1].files : response.gists[1].files[fn].content = Absent
    /\ ~AnyMatch(Summary(upstream[2]), query)
    /\ ContentMatches(FullGist(upstream[2]), query)

(***************************************************************************)
(* C8  As claimed: if every file of every listed gist carries inline       *)
(* content, the empty string included, no get-gist-by-id call is issued.   *)
(***************************************************************************)
C8_NoCallsWhenAllInline ==
    (\A k \in 1..Len(upstream) : \A fn \in DOMAIN upstream[k].files :
          Summary(upstream[k]).files[fn].content # Absent)
      => NoGetCalls

(***************************************************************************)
(* C9  As claimed: a listed gist whose file content is absent from the     *)
(* listing and whose description and filenames do not contain the query,   *)
(* but whose actual content does, gets exactly one get-gist-by-id call     *)
(* and, the call returning that content, is in the result.                 *)
(***************************************************************************)
C9_ContentOnlyFetched ==
    (Succeeded /\ AllCallsSucceededUnchanged) =>
        \A k \in 1..Len(upstream) :
            LET s == Summary(upstream[k])
            IN  ( /\ DOMAIN s.files # {}
                  /\ \A fn \in DOMAIN s.files : s.files[fn].content = Absent
                  /\ ~DescriptionMatches(s, query)
                  /\ ~FilenameMatches(s, query)
                  /\ ContentMatches(FullGist(upstream[k]), query) )
                => (getCalls[k] = 1 /\ k \in ResultIds)

(***************************************************************************)
(* C10  As claimed, in the case the claim singles out: a listed gist whose *)
(* filename contains the query and whose files carry no inline content is  *)
(* in the result and no get-gist-by-id call is issued for it.              *)
(***************************************************************************)
C10_FilenameNoCall ==
    \A k \in 1..Len(upstream) :
        LET s == Summary(upstream[k])
        IN  ( /\ listStatus = 200
              /\ FilenameMatches(s, query)
              /\ \A fn \in DOMAIN s.files : s.files[fn].content = Absent )
            => /\ getCalls[k] = 0
               /\ Succeeded => k \in ResultIds

\* C10 as amended: a listed gist whose filename contains the query is retained
\* by pass 1 on its filename; one get-gist-by-id call is issued for it when
\* one of its files has no inline content or empty inline content, none
\* otherwise; it is in the result unless that call returned a version of the
\* gist that no longer matches the query.
C10_FilenameMatch ==
    \A k \in 1..Len(upstream) :
        LET s == Summary(upstream[k])
        IN  (listStatus = 200 /\ FilenameMatches(s, query)) =>
              /\ \E i \in 1..Len(filteredGists) : filteredGists[i] = s
              /\ getCalls[k] =
                    IF \E fn \in DOMAIN s.files : s.files[fn].content \in {Absent, <<>>}
                    THEN 1 ELSE 0
              /\ Succeeded =>
                    (k \in ResultIds <=>
                       ~ \E i \in 1..Len(enrich) :
                            /\ filteredGists[i].id = k
                            /\ enrich[i].st = "fetched"
                            /\ ~AnyMatch(enrich[i].value, query))

\* A gist matched by its filename alone, with no inline content, is returned
\* after one get-gist-by-id call.
C10_Witness ==
    /\ Succeeded
    /\ \E k \in 1..Len(upstream) :
          LET s == Summary(upstream[k])
          IN  /\ FilenameMatches(s, query)
              /\ ~DescriptionMatches(s, query)
              /\ DOMAIN s.files # {}
              /\ \A fn \in DOMAIN s.files : s.files[fn].content = Absent
              /\ getCalls[k] = 1
              /\ k \in ResultIds

(***************************************************************************)
(* C11  Idempotence.  Two searches with the same query and credential      *)
(* against unchanged upstream data return identical ordered results,       *)
(* whatever order the get-gist-by-id calls of each run complete in.        *)
(***************************************************************************)
C11_Idempotent ==
    (run = 2 /\ pc = "done" /\ q = previous.query) =>
        /\ response.status = 200
        /\ response.gists = previous.gists

\* The second run returned two gists, one after a 404, and its calls settled
\* in the reverse order.
C11_Witness ==
    /\ run = 2
    /\ pc = "done"
    /\ q = previous.query
    /\ Len(response.gists) = 2
    /\ order = <<2, 1>>
    /\ \E i \in 1..2 : enrich[i].st = "failed"
    /\ \E i \in 1..2 : enrich[i].st = "fetched"

(***************************************************************************)
(* C12  Join barrier.  Pass 2 and the response are never produced while a  *)
(* get-gist-by-id call of the search is outstanding: every call that was   *)
(* started has settled, successfully or with a captured failure, before    *)
(* the final filter runs, and nothing is sent earlier.                     *)
(***************************************************************************)
C12_JoinBarrier ==
    /\ (\E i \in 1..Len(enrich) : enrich[i].st = "pending") =>
          (pc = "enriching" /\ response.status = 0)
    /\ (pc = "done" /\ listStatus = 200) =>
          /\ Len(order) = Len(enrich)
          /\ \A id \in DOMAIN getCalls :
                getCalls[id] =
                  Cardinality({ i \in 1..Len(enrich) :
                                  /\ filteredGists[i].id = id
                                  /\ enrich[i].st \in {"fetched", "failed"} })

\* The response was sent after two calls, one of which settled long after the
\* other: both are settled.
C12_Witness ==
    /\ pc = "done"
    /\ response.status = 200
    /\ Len(enrich) = 2
    /\ enrich[1].st = "fetched"
    /\ enrich[2].st = "failed"
    /\ order = <<1, 2>>

(***************************************************************************)
(* C13  As claimed: a rate-limit failure of the listing call is surfaced   *)
(* with an outcome of its own, distinct from the outcome of an             *)
(* authentication failure (401) and of an unknown failure (500).           *)
(***************************************************************************)
C13_RateLimitDistinct ==
    (pc = "done" /\ listStatus = 403) => response.status \notin {401, 500}

(***************************************************************************)
(* C14  As claimed: the user-scoped listing is requested only with the     *)
(* credential of a specific user; a search that runs on the fallback       *)
(* credential lists the public gists only.                                 *)
(***************************************************************************)
C14_FallbackListsPublicOnly ==
    \A k \in 1..Len(listCalls) :
        listCalls[k].token = "default" => listCalls[k].endpoint = "GET /gists/public"

(***************************************************************************)
(* C15  As claimed: every search with a non-empty query issues exactly one *)
(* listing call, for one page of 100.                                      *)
(***************************************************************************)
C15_ExactlyOneListing ==
    (pc = "done" /\ trim(query) # <<>>) =>
        /\ Len(listCalls) = 1
        /\ listCalls[1].per_page = 100

\* C15 as amended: a search that reaches its listing step (non-empty query
\* and, on /api/gists/search, a session and a user lookup that did not throw)
\* issues exactly one listing call, for one page of 100; a request answered
\* before that step issues none; there is never a second listing call,
\* neither for a further page nor after the first one failed.
C15_OneListingCall ==
    /\ Len(listCalls) <= 1
    /\ \A k \in 1..Len(listCalls) : listCalls[k].per_page = 100
    /\ Len(listCalls) = 1 <=> listStatus # 0
    /\ (pc = "done" /\ trim(query) # <<>>) =>
          (Len(listCalls) = 1 <=> (authToken # "none" /\ (route = "user" => session)))

\* The listing call failed with a transient error and the search ended with
\* that one call.
C15_Witness ==
    /\ pc = "done"
    /\ listStatus = 500
    /\ Len(listCalls) = 1
    /\ listCalls[1].per_page = 100

(***************************************************************************)
(* C16  Case-insensitivity.  Two queries that differ only in letter case,  *)
(* against the same upstream data, get the same ordered result: every      *)
(* comparison of both passes ignores case.                                 *)
(***************************************************************************)
C16_CaseInsensitive ==
    (run = 2 /\ pc = "done" /\ q # previous.query) =>
        /\ toLowerCase(q) = toLowerCase(previous.query)
        /\ response.status = 200
        /\ response.gists = previous.gists

\* The second run, with the query in the other case, returned a gist again.
C16_Witness ==
    /\ run = 2
    /\ pc = "done"
    /\ q # previous.query
    /\ Len(response.gists) >= 1
    /\ \E k \in 1..Len(response.gists) :
          ~includes(response.gists[k].description, q)
            /\ DescriptionMatches(response.gists[k], q)

(***************************************************************************)
(* C17  A listed gist with zero files never makes the search fail, causes  *)
(* no get-gist-by-id call, and is in the result exactly when its           *)
(* description contains the query, case-insensitively.                     *)
(***************************************************************************)
C17_ZeroFiles ==
    \A k \in 1..Len(upstream) :
        DOMAIN upstream[k].files = {} =>
            /\ getCalls[k] = 0
            /\ (pc = "done" /\ listStatus = 200) =>
                  /\ response.status = 200
                  /\ k \in ResultIds <=> DescriptionMatches(Summary(upstream[k]), query)

\* Of two gists without files the one whose description matches is returned.
C17_Witness ==
    /\ Succeeded
    /\ Len(upstream) = 2
    /\ DOMAIN upstream[1].files = {}
    /\ DOMAIN upstream[2].files = {}
    /\ ResultIds = {2}

(***************************************************************************)
(* C18  Enrichment step.  For every gist retained by pass 1 that has a     *)
(* file without inline content exactly one get-gist-by-id call is issued   *)
(* in the search, never two for a gist and none again after a failure;     *)
(* on success the returned full gist replaces the listing entry.           *)
(***************************************************************************)
C18_EnrichmentStep ==
    listStatus = 200 =>
        /\ \A id \in DOMAIN getCalls : getCalls[id] <= 1
        /\ \A i \in 1..Len(filteredGists) :
              LET gist == filteredGists[i]
                  g == upstream[gist.id]
              IN  /\ (\E fn \in DOMAIN gist.files : gist.files[fn].content = Absent) =>
                        /\ getCalls[gist.id] = 1
                        /\ enrich[i].st \in {"pending", "fetched", "failed"}
                  /\ enrich[i].st = "failed" => getCalls[gist.id] = 1
                  /\ enrich[i].st = "fetched" =>
                        /\ enrich[i].value \in {FullGist(g), EditedGist(g)}
                        /\ PromiseAll(enrich, order)[i] = enrich[i].value
                        /\ pc = "done" =>
                              \A k \in 1..Len(response.gists) :
                                  response.gists[k].id = gist.id =>
                                      response.gists[k] = enrich[i].value

\* A gist listed without content was fetched once and is returned with the
\* content the call brought.
C18_Witness ==
    /\ Succeeded
    /\ \E i \in 1..Len(enrich) :
          /\ enrich[i].st = "fetched"
          /\ \E fn \in DOMAIN filteredGists[i].files :
                filteredGists[i].files[fn].content = Absent
          /\ enrich[i].value = FullGist(upstream[filteredGists[i].id])
          /\ getCalls[filteredGists[i].id] = 1
          /\ \E k \in 1..Len(response.gists) : response.gists[k] = enrich[i].value

(***************************************************************************)
(* C19  Pass 2 is a full re-check.  Membership in the result is decided    *)
(* from the enriched version of each gist alone: a gist that passed pass 1 *)
(* but whose fetched version no longer matches is not in the result.       *)
(***************************************************************************)
C19_Pass2Recheck ==
    Succeeded =>
        /\ ResultIds \subseteq { filteredGists[i].id : i \in 1..Len(filteredGists) }
        /\ \A i \in 1..Len(filteredGists) :
              filteredGists[i].id \in ResultIds <=> AnyMatch(enrich[i].value, query)

\* A gist passed pass 1, was edited upstream before it was fetched, and is not
\* in the result.
C19_Witness ==
    /\ Succeeded
    /\ \E i \in 1..Len(filteredGists) :
          /\ AnyMatch(filteredGists[i], query)
          /\ enrich[i].st = "fetched"
          /\ enrich[i].value = EditedGist(upstream[filteredGists[i].id])
          /\ filteredGists[i].id \notin ResultIds

(***************************************************************************)
(* C20  Listing fails with a status other than 401.  The search ends with  *)
(* status 500, its response holds no gists, and no get-gist-by-id call is  *)
(* issued.                                                                 *)
(***************************************************************************)
C20_ListingFailure ==
    listStatus \notin {0, 200, 401} =>
        /\ pc = "done"
        /\ response.status = 500
        /\ response.gists = <<>>
        /\ NoGetCalls

\* The public listing call failed with 403 although the page holds a gist
\* matching the query.
C20_Witness ==
    /\ pc = "done"
    /\ route = "public"
    /\ listStatus = 403
    /\ response.status = 500
    /\ \E k \in 1..Len(upstream) : AnyMatch(Summary(upstream[k]), query)

(***************************************************************************)
(* C21: in PATCH and DELETE /api/gists/:id with the ownership check, the   *)
(* update-gist or delete-gist call is issued only when the fetched gist's  *)
(* owner login equals the session user's name; when it differs the handler *)
(* answers 403 and the gist at the Gist Source is as it was fetched; when  *)
(* get-gist answered 404 the handler answers 404 and issues no write call. *)
(***************************************************************************)
WriteCalls ==
    { k \in 1..Len(hubCalls) : hubCalls[k] \in {"updateGist", "deleteGist"} }

C21_OwnershipGuard ==
    /\ WriteCalls # {} =>
          /\ gotGist.status = 200
          /\ gotGist.gist.owner = idRequest.name
    /\ ( /\ idPc = "done"
         /\ gotGist.status = 200
         /\ hasOwner(gotGist.gist)
         /\ gotGist.gist.owner # idRequest.name ) =>
          /\ idResponse.status = 403
          /\ WriteCalls = {}
          /\ hub = gotGist.gist
    /\ (idPc = "done" /\ gotGist.status = 404) =>
          /\ idResponse = IdResponse(404, "Gist not found")
          /\ WriteCalls = {}

\* A DELETE of another user's gist has been answered
C21_Witness ==
    /\ idPc = "done"
    /\ idRequest.method = "DELETE"
    /\ idRequest.name = "ann"
    /\ gotGist.status = 200
    /\ gotGist.gist.owner = "bob"
    /\ idResponse.status = 403
    /\ hubCalls = << "getGist" >>

(***************************************************************************)
(* C22: GET /api/public-gists answers 200 with the listed page when the    *)
(* listing call succeeds, 429 with the reset time when it fails with 403   *)
(* and x-ratelimit-remaining "0", 401 when it fails with 401, and 500 on   *)
(* every other failure.                                                    *)
(***************************************************************************)
RateLimited == pgOutcome.status = 403 /\ pgOutcome.remaining = <<"0">>

ListingIds == { upstream[k].id : k \in 1..Len(upstream) }

C23_ResultWithinListing ==
    Succeeded =>
        /\ ResultIds \subseteq ListingIds
        /\ Cardinality(ResultIds) = Len(response.gists)
        /\ \E at \in [1..Len(response.gists) -> 1..Len(upstream)] :
              /\ \A j \in 1..Len(response.gists) :
                    upstream[at[j]].id = response.gists[j].id
              /\ \A j, k \in 1..Len(response.gists) : j < k => at[j] < at[k]

\* The second gist of a page of two is the whole result, in the representation
\* get-gist-by-id returned
C23_Witness ==
    /\ Succeeded
    /\ Len(upstream) = 2
    /\ Len(response.gists) = 1
    /\ response.gists[1].id = 2
    /\ enrich[1].st = "fetched"

(***************************************************************************)
(* C24: get-gist-by-id calls are issued only once the listing call has     *)
(* returned successfully, at most one per gist and only for gists pass 1   *)
(* retained: a listed gist matching neither by description, nor by         *)
(* filename, nor by inline content is never fetched, and the number of     *)
(* calls is at most the number of pass-1 survivors.                        *)
(***************************************************************************)
FetchedIds == { id \in DOMAIN getCalls : getCalls[id] > 0 }

C24_EnrichOnlySurvivors ==
    /\ FetchedIds # {} => (listStatus = 200 /\ Len(listCalls) = 1)
    /\ \A id \in FetchedIds :
          /\ getCalls[id] = 1
          /\ \E i \in 1..Len(filteredGists) : filteredGists[i].id = id
          /\ AnyMatch(Summary(upstream[id]), query)
    /\ Cardinality(FetchedIds) <= Len(filteredGists)

\* Of two listed gists one survived pass 1 and was fetched, the other matched
\* nothing and was not
C24_Witness ==
    /\ pc = "done"
    /\ Len(upstream) = 2
    /\ Len(filteredGists) = 1
    /\ FetchedIds = {1}
    /\ ~AnyMatch(Summary(upstream[2]), query)

(***************************************************************************)
(* C25: GET /api/gists/search checks the session first: a request without  *)
(* a session is answered 401 'Unauthorized' whatever its query, the empty  *)
(* one included, with no database access and no call to the Gist Source.   *)
(***************************************************************************)
C25_SessionFirst ==
    (route = "user" /\ ~session) =>
        /\ pc \in {"start", "done"}
        /\ authToken = "none"
        /\ NoSourceCalls
        /\ pc = "done" => response = ErrorResponse(401, "Unauthorized")

\* A request without session and without q parameter was answered 401
C25_Witness ==
    /\ route = "user"
    /\ ~session
    /\ q = NoParam
    /\ pc = "done"
    /\ response.status = 401

(***************************************************************************)
(* C26: dbConnect starts at most one connection attempt per process in     *)
(* every interleaving of its callers: a call that arrives while the        *)
(* attempt is pending awaits the same promise, a call after success gets   *)
(* the cached connection, and after the attempt has failed every later     *)
(* call awaits the same rejected promise and fails, starting no attempt.   *)
(***************************************************************************)
C26_OneAttempt ==
    /\ attempts <= 1
    /\ \A c \in Callers :
          /\ callers[c].pc \in {"awaiting", "threw"} => callers[c].promise = 1
          /\ callers[c].pc = "returned" =>
                (cached.promise = "fulfilled" /\ callers[c].promise \in {0, 1})
          /\ callers[c].pc = "threw" => cached.promise = "rejected"
          /\ (callers[c].saw = "rejected" /\ callers[c].pc # "idle") =>
                callers[c].pc \in {"awaiting", "threw"}
          /\ (callers[c].pc = "returned" /\ callers[c].promise = 0) => cached.conn

\* One call started the attempt, one arrived while it was pending, one after
\* it had failed; all three failed
C26_Witness ==
    /\ attempts = 1
    /\ cached.promise = "rejected"
    /\ \A c \in Callers : callers[c].pc = "threw"
    /\ \E c \in Callers : callers[c].saw = "null"
    /\ \E c \in Callers : callers[c].saw = "pending"
    /\ \E c \in Callers : callers[c].saw = "rejected"

(***************************************************************************)
(* C27: in SearchContent, once no search request is in flight and no       *)
(* debounced search is waiting, the list shows the result of the most      *)
(* recently issued query -- the gists of a response to it, or none when a *)
(* search for it failed -- and nothing when the search box is blank: a     *)
(* late response to an older query does not replace the newer result, and  *)
(* a response arriving after the box was cleared does not fill the list.   *)
(* Stated for runs without tab clicks.                                     *)
(***************************************************************************)
C27_LatestQueryWins ==
    (inFlight = {} /\ timers = <<>> /\ ~tabUsed) =>
        IF ~Truthy(trim(searchQuery)) THEN scGists = <<>>
        ELSE scGists \in { <<>>, searchResults(lastSearch.query) }

(***************************************************************************)
(* C28: in SearchContent, whenever the active tab is 'all' and no search   *)
(* is in flight, the list shows the complete response of the last search,  *)
(* in particular after switching the tab from 'all' to 'my' and back.      *)
(* Stated for the time from the arrival of a successful response to the    *)
(* next time the box is cleared or a search fails.                         *)
(***************************************************************************)
C28_TabRoundTrip ==
    (activeTab = "all" /\ inFlight = {} /\ lastSearch.shown) =>
        scGists = lastSearch.results

(***************************************************************************)
(* C29: in the My Gists page in search mode the list on display holds each *)
(* gist id at most once, after any number of 'load more' actions: the      *)
(* pages the search requests append repeat no gist already shown.  Stated  *)
(* for lists made of search responses only.                                *)
(***************************************************************************)
C29_NoRepeatedGists ==
    (isSearching /\ fromSearch) =>
        \A j, k \in 1..Len(myGists) : j # k => myGists[j].id # myGists[k].id

====
